---- MODULE Spec2Model ----
(***************************************************************************)
(* Model of app/services/item_service.py: lookups over a Course -> Lab ->  *)
(* Task -> Step forest: find_by_id and the get_*_by_id / get_*_by_path     *)
(* lookups (pure operators), and the two full-tree searches                *)
(* get_item_by_id_dfs_iterative / get_item_by_id_dfs_recursive, executed   *)
(* one node visit (or one call/return) per step.                           *)
(***************************************************************************)
EXTENDS Integers, Sequences, FiniteSets, TLC

\* ---------------------------------------------------------------- bounds
\* Largest number of nodes (of all four kinds together) in a forest.
MaxNodes == 4

\* ---------------------------------------------------------------- values
\* The id strings that occur in forests and as search targets.
Ids == {"a", "b"}

\* Python's None, and the outcome "an exception was raised".
None == [kind |-> "None"]
Error == [kind |-> "Error"]

PreOrder == "PreOrder"
PostOrder == "PostOrder"
Orders == {PreOrder, PostOrder}

\* A node of level 1..4. `ref` is the identity of the Python object (two
\* nodes with equal ids and equal subtrees are still different objects).
MkItem(level, ref, id, kids) ==
    CASE level = 1 -> [kind |-> "Course", ref |-> ref, id |-> id, labs |-> kids]
      [] level = 2 -> [kind |-> "Lab", ref |-> ref, id |-> id, tasks |-> kids]
      [] level = 3 -> [kind |-> "Task", ref |-> ref, id |-> id, steps |-> kids]
      [] level = 4 -> [kind |-> "Step", ref |-> ref, id |-> id]

\* All lists of level-`level` items that hold exactly n nodes in total,
\* objects numbered from `base` on.
RECURSIVE ItemLists(_, _, _)
ItemLists(level, n, base) ==
    IF n = 0 THEN {<<>>}
    ELSE IF level > 4 THEN {}
    ELSE UNION { { <<MkItem(level, base, id, kids)>> \o rest :
                       id \in Ids,
                       kids \in ItemLists(level + 1, k - 1, base + 1),
                       rest \in ItemLists(level, n - k, base + k) } :
                 k \in 1..n }

\* What read_courses() can return: every List[Course] of at most MaxNodes nodes.
Forests == UNION { ItemLists(1, n, 1) : n \in 0..MaxNodes }

FoundItem(item, visited) ==
    [kind |-> "FoundItem", item |-> item, visited_nodes |-> visited]

\* ------------------------------------------------------- direct lookups
\* Variant: the scan keeps going and returns the last element with the id.
RECURSIVE find_from_Last(_, _, _)
find_from_Last(items, item_id, i) ==
    IF i > Len(items) THEN None
    ELSE LET later == find_from_Last(items, item_id, i + 1)
         IN  IF later # None THEN later
             ELSE IF items[i].id = item_id THEN items[i]
             ELSE None

RECURSIVE find_from(_, _, _)
find_from(items, item_id, i) ==
    IF i > Len(items) THEN None
    ELSE IF items[i].id = item_id THEN items[i]
    ELSE find_from(items, item_id, i + 1)

find_by_id(items, item_id) == find_from(items, item_id, 1)

get_course_by_id(cs, course_id) == find_by_id(cs, course_id)

\* course.labs on an object without that attribute raises AttributeError.
get_lab_by_id(course, lab_id) ==
    IF "labs" \in DOMAIN course THEN find_by_id(course.labs, lab_id) ELSE Error

get_task_by_id(lab, task_id) ==
    IF "tasks" \in DOMAIN lab THEN find_by_id(lab.tasks, task_id) ELSE Error

get_step_by_id(task, step_id) ==
    IF "steps" \in DOMAIN task THEN find_by_id(task.steps, step_id) ELSE Error

get_course_by_path(cs, course_id) == get_course_by_id(cs, course_id)

\* Variant: the labs of the first course are searched, not those of the
\* course that was looked up.
get_lab_by_path_FirstCourse(cs, course_id, lab_id) ==
    LET course == get_course_by_path(cs, course_id)
    IN  IF course # None THEN get_lab_by_id(cs[1], lab_id) ELSE None

get_lab_by_path(cs, course_id, lab_id) ==
    LET course == get_course_by_path(cs, course_id)
    IN  IF course # None THEN get_lab_by_id(course, lab_id) ELSE None

\* Variant: no `is not None` guard on the lab.
get_task_by_path_Unguarded(cs, course_id, lab_id, task_id) ==
    LET lab == get_lab_by_path(cs, course_id, lab_id)
    IN  get_task_by_id(lab, task_id)

get_task_by_path(cs, course_id, lab_id, task_id) ==
    LET lab == get_lab_by_path(cs, course_id, lab_id)
    IN  IF lab # None THEN get_task_by_id(lab, task_id) ELSE None

get_step_by_path(cs, course_id, lab_id, task_id, step_id) ==
    LET task == get_task_by_path(cs, course_id, lab_id, task_id)
    IN  IF task # None THEN get_step_by_id(task, step_id) ELSE None

\* ----------------------------------------------------------------- state
VARIABLES
    courses,        \* the forest the calls run on (never modified)
    pc,             \* "idle", "iterative", "between", "recursive" or "done"
    call,           \* the call being executed: function name and arguments
    result,         \* the value a finished direct lookup returned
    counter,        \* get_item_by_id_dfs_iterative: local `counter`
    loops,          \* iterative: index of the current item of each open for loop
    it_result,      \* the value the iterative search returned
    visited_nodes,  \* get_item_by_id_dfs_recursive: the shared `visited_nodes`
    stack,          \* recursive: the frames of get_item_by_id_dfs_recursive_
    retval,         \* recursive: the value the frame that just returned gave back
    rec_result,     \* the value the recursive search returned
    tested          \* refs of the nodes whose id was compared, in order

vars == <<courses, pc, call, result, counter, loops, it_result,
          visited_nodes, stack, retval, rec_result, tested>>

iterVars == <<counter, loops, it_result>>
recVars == <<visited_nodes, stack, retval, rec_result>>

NoCall == [fn |-> "none"]
Running == [kind |-> "Running"]

Init ==
    /\ courses \in Forests
    /\ pc = "idle"
    /\ call = NoCall
    /\ result = None
    /\ counter = 0
    /\ loops = <<>>
    /\ it_result = Running
    /\ visited_nodes = 0
    /\ stack = <<>>
    /\ retval = Running
    /\ rec_result = Running
    /\ tested = <<>>

\* ------------------------------------------- direct lookups, as calls
Lookup(c, r) ==
    /\ pc = "idle"
    /\ call' = c
    /\ result' = r
    /\ pc' = "done"
    /\ UNCHANGED <<courses, iterVars, recVars, tested>>

\* The lists of the forest a caller can pass as `items`.
RECURSIVE ListsIn(_)
ListsIn(items) ==
    {items} \cup UNION { ListsIn(IF "labs" \in DOMAIN items[i] THEN items[i].labs
                                 ELSE IF "tasks" \in DOMAIN items[i] THEN items[i].tasks
                                 ELSE IF "steps" \in DOMAIN items[i] THEN items[i].steps
                                 ELSE <<>>) : i \in 1..Len(items) }

RECURSIVE NodesIn(_)
NodesIn(items) ==
    UNION { {l[i] : i \in 1..Len(l)} : l \in ListsIn(items) }

Call_find_by_id ==
    \E items \in ListsIn(courses), item_id \in Ids :
        Lookup([fn |-> "find_by_id", items |-> items, item_id |-> item_id],
               find_by_id(items, item_id))

Call_get_by_id ==
    \E parent \in NodesIn(courses), id \in Ids :
        \/ /\ parent.kind = "Course"
           /\ Lookup([fn |-> "get_lab_by_id", parent |-> parent, item_id |-> id],
                     get_lab_by_id(parent, id))
        \/ /\ parent.kind = "Lab"
           /\ Lookup([fn |-> "get_task_by_id", parent |-> parent, item_id |-> id],
                     get_task_by_id(parent, id))
        \/ /\ parent.kind = "Task"
           /\ Lookup([fn |-> "get_step_by_id", parent |-> parent, item_id |-> id],
                     get_step_by_id(parent, id))

Call_get_by_path ==
    \E c \in Ids, l \in Ids, t \in Ids, s \in Ids :
        \/ Lookup([fn |-> "get_course_by_path", path |-> <<c>>],
                  get_course_by_path(courses, c))
        \/ Lookup([fn |-> "get_lab_by_path", path |-> <<c, l>>],
                  get_lab_by_path(courses, c, l))
        \/ Lookup([fn |-> "get_task_by_path", path |-> <<c, l, t>>],
                  get_task_by_path(courses, c, l, t))
        \/ Lookup([fn |-> "get_step_by_path", path |-> <<c, l, t, s>>],
                  get_step_by_path(courses, c, l, t, s))

\* --------------------------------------- get_item_by_id_dfs_iterative
\* Variant: the innermost loop over task.steps is missing.
IterList_NoSteps(p) ==
    CASE Len(p) = 0 -> courses
      [] Len(p) = 1 -> courses[p[1]].labs
      [] Len(p) = 2 -> courses[p[1]].labs[p[2]].tasks
      [] OTHER -> <<>>

\* The list the for loop at nesting depth Len(p)+1 runs over, when the
\* enclosing loops are at the items p.
IterList(p) ==
    CASE Len(p) = 0 -> courses
      [] Len(p) = 1 -> courses[p[1]].labs
      [] Len(p) = 2 -> courses[p[1]].labs[p[2]].tasks
      [] Len(p) = 3 -> courses[p[1]].labs[p[2]].tasks[p[3]].steps
      [] OTHER -> <<>>

Front(p) == SubSeq(p, 1, Len(p) - 1)

\* Variant: when an inner loop ends the enclosing loops end with it.
IterAdvance_Stops(p) ==
    IF p = <<>> THEN <<>>
    ELSE IF p[Len(p)] < Len(IterList(Front(p)))
         THEN [p EXCEPT ![Len(p)] = @ + 1]
         ELSE <<>>

\* The loops after the body of the innermost one has ended: its next item,
\* or that of the nearest enclosing loop that has one; <<>> when all ended.
RECURSIVE IterAdvance(_)
IterAdvance(p) ==
    IF p = <<>> THEN <<>>
    ELSE IF p[Len(p)] < Len(IterList(Front(p)))
         THEN [p EXCEPT ![Len(p)] = @ + 1]
         ELSE IterAdvance(Front(p))

\* The loops at the next loop-body entry after the test of the item at p failed.
IterNext(p) ==
    IF IterList(p) # <<>> THEN Append(p, 1) ELSE IterAdvance(p)

IterItem(p) == IterList(Front(p))[p[Len(p)]]

StartIterative(fn) ==
    /\ pc = "idle"
    /\ \E item_id \in Ids, order \in Orders :
          call' = [fn |-> fn, item_id |-> item_id, order |-> order]
    /\ counter' = 0
    /\ pc' = "iterative"
    /\ UNCHANGED <<courses, result, loops, it_result, recVars, tested>>

Call_get_item_by_id_dfs_iterative == StartIterative("get_item_by_id_dfs_iterative")

\* get_item_by_id: read_courses() yields the forest, then the iterative search.
Call_get_item_by_id == StartIterative("get_item_by_id")

\* Variant: the FoundItem is built with the counter as it was before the
\* increment.
IterVisit_StaleCount(depth) ==
    /\ pc = "iterative"
    /\ call.order = PreOrder
    /\ LET p == IterNext(loops)
       IN  /\ Len(p) = depth
           /\ counter' = counter + 1
           /\ tested' = Append(tested, IterItem(p).ref)
           /\ IF IterItem(p).id = call.item_id
              THEN /\ it_result' = FoundItem(IterItem(p), counter)
                   /\ pc' = "between"
                   /\ UNCHANGED loops
              ELSE /\ loops' = p
                   /\ UNCHANGED <<it_result, pc>>
    /\ UNCHANGED <<courses, call, result, recVars>>

\* One execution of `counter += 1; if x.id == item_id: return FoundItem(x, counter)`
\* in the loop at nesting depth `depth`.
IterVisit(depth) ==
    /\ pc = "iterative"
    /\ call.order = PreOrder
    /\ LET p == IterNext(loops)
       IN  /\ Len(p) = depth
           /\ counter' = counter + 1
           /\ tested' = Append(tested, IterItem(p).ref)
           /\ IF IterItem(p).id = call.item_id
              THEN /\ it_result' = FoundItem(IterItem(p), counter')
                   /\ pc' = "between"
                   /\ UNCHANGED loops
              ELSE /\ loops' = p
                   /\ UNCHANGED <<it_result, pc>>
    /\ UNCHANGED <<courses, call, result, recVars>>

IterVisitCourse == IterVisit(1)
IterVisitLab == IterVisit(2)
IterVisitTask == IterVisit(3)
IterVisitStep == IterVisit(4)

\* All loops ended without a match: fall out of the match statement.
IterExhausted ==
    /\ pc = "iterative"
    /\ call.order = PreOrder
    /\ IterNext(loops) = <<>>
    /\ it_result' = None
    /\ pc' = "between"
    /\ UNCHANGED <<courses, call, result, counter, loops, recVars, tested>>

\* Variant: PostOrder looks at the first course only.
IterPostOrder_FirstCourse ==
    /\ pc = "iterative"
    /\ call.order = PostOrder
    /\ it_result' = IF courses # <<>> /\ courses[1].id = call.item_id
                    THEN FoundItem(courses[1], 1)
                    ELSE None
    /\ pc' = "between"
    /\ UNCHANGED <<courses, call, result, counter, loops, recVars, tested>>

\* case PostOrder(): pass
IterPostOrder ==
    /\ pc = "iterative"
    /\ call.order = PostOrder
    /\ it_result' = None
    /\ pc' = "between"
    /\ UNCHANGED <<courses, call, result, counter, loops, recVars, tested>>

\* --------------------------------------- get_item_by_id_dfs_recursive
\* A frame of get_item_by_id_dfs_recursive_: its `items`, the index of the
\* loop's current item, and where in the loop body it stands:
\*   "pre"  the first `match order`      "go"   about to evaluate go_items
\*   "ret"  at `if go_items is not None`  "post" the second `match order`
Frame(items) == [items |-> items, i |-> 1, at |-> "pre"]

Top == stack[Len(stack)]
TopItem == Top.items[Top.i]
SetTop(f) == [stack EXCEPT ![Len(stack)] = f]

InBody(at) ==
    /\ pc = "recursive"
    /\ stack # <<>>
    /\ Top.at = at
    /\ Top.i <= Len(Top.items)

\* The search is run on the arguments the iterative search was just run on.
Call_get_item_by_id_dfs_recursive ==
    /\ pc = "between"
    /\ call' = [call EXCEPT !.fn = "get_item_by_id_dfs_recursive"]
    /\ visited_nodes' = 0
    /\ stack' = <<Frame(courses)>>
    /\ retval' = Running
    /\ tested' = <<>>
    /\ pc' = "recursive"
    /\ UNCHANGED <<courses, result, iterVars, rec_result>>

\* `visited_nodes += 1; if item.id == item_id: return FoundItem(...)`;
\* when the test fails the body goes on at `onward`, with the loop at index `i`.
RecVisit(onward, i) ==
    /\ visited_nodes' = visited_nodes + 1
    /\ tested' = Append(tested, TopItem.ref)
    /\ IF TopItem.id = call.item_id
       THEN /\ stack' = Front(stack)
            /\ retval' = FoundItem(TopItem, visited_nodes')
       ELSE /\ stack' = SetTop([Top EXCEPT !.at = onward, !.i = i])
            /\ UNCHANGED retval
    /\ UNCHANGED <<courses, pc, call, result, iterVars, rec_result>>

\* first `match order`, case PreOrder()
RecPreVisit ==
    /\ InBody("pre")
    /\ call.order = PreOrder
    /\ RecVisit("go", Top.i)

\* Variant: outside PreOrder the id is still tested before the children.
RecPreSkip_Tests ==
    /\ InBody("pre")
    /\ call.order # PreOrder
    /\ IF TopItem.id = call.item_id
       THEN /\ stack' = Front(stack)
            /\ retval' = FoundItem(TopItem, visited_nodes)
       ELSE /\ stack' = SetTop([Top EXCEPT !.at = "go"])
            /\ UNCHANGED retval
    /\ UNCHANGED <<courses, pc, call, result, iterVars, visited_nodes,
                   rec_result, tested>>

\* first `match order`, case _
RecPreSkip ==
    /\ InBody("pre")
    /\ call.order # PreOrder
    /\ stack' = SetTop([Top EXCEPT !.at = "go"])
    /\ UNCHANGED <<courses, pc, call, result, iterVars, visited_nodes, retval,
                   rec_result, tested>>

\* go_items for an item with children: go(items=...) calls the function again.
RecGo(kind, kids) ==
    /\ InBody("go")
    /\ TopItem.kind = kind
    /\ stack' = Append(SetTop([Top EXCEPT !.at = "ret"]), Frame(kids))
    /\ UNCHANGED <<courses, pc, call, result, iterVars, visited_nodes, retval,
                   rec_result, tested>>

RecGoCourse == RecGo("Course", TopItem.labs)
RecGoLab == RecGo("Lab", TopItem.tasks)
RecGoTask == RecGo("Task", TopItem.steps)

\* go_items for a Step: a bare `return`
RecGoStep ==
    /\ InBody("go")
    /\ TopItem.kind = "Step"
    /\ stack' = SetTop([Top EXCEPT !.at = "ret"])
    /\ retval' = None
    /\ UNCHANGED <<courses, pc, call, result, iterVars, visited_nodes,
                   rec_result, tested>>

\* Variant: the end of a loop is counted as a visit.
RecLoopEnd_Counts ==
    /\ pc = "recursive"
    /\ stack # <<>>
    /\ Top.at = "pre"
    /\ Top.i > Len(Top.items)
    /\ stack' = Front(stack)
    /\ retval' = None
    /\ visited_nodes' = visited_nodes + 1
    /\ UNCHANGED <<courses, pc, call, result, iterVars, rec_result, tested>>

\* the for loop has no item left: `return None`
RecLoopEnd ==
    /\ pc = "recursive"
    /\ stack # <<>>
    /\ Top.at = "pre"
    /\ Top.i > Len(Top.items)
    /\ stack' = Front(stack)
    /\ retval' = None
    /\ UNCHANGED <<courses, pc, call, result, iterVars, visited_nodes,
                   rec_result, tested>>

\* Variant: a match found below is dropped and the body goes on.
RecPropagate_Drops ==
    /\ InBody("ret")
    /\ retval # None
    /\ stack' = SetTop([Top EXCEPT !.at = "post"])
    /\ retval' = Running
    /\ UNCHANGED <<courses, pc, call, result, iterVars, visited_nodes,
                   rec_result, tested>>

\* `if go_items is not None: return go_items`
RecPropagate ==
    /\ InBody("ret")
    /\ retval # None
    /\ stack' = Front(stack)
    /\ UNCHANGED <<courses, pc, call, result, iterVars, visited_nodes, retval,
                   rec_result, tested>>

\* go_items is None: on to the second `match order`
RecContinue ==
    /\ InBody("ret")
    /\ retval = None
    /\ stack' = SetTop([Top EXCEPT !.at = "post"])
    /\ retval' = Running
    /\ UNCHANGED <<courses, pc, call, result, iterVars, visited_nodes,
                   rec_result, tested>>

\* second `match order`, case PostOrder(); then the next item of the loop
RecPostVisit ==
    /\ InBody("post")
    /\ call.order = PostOrder
    /\ RecVisit("pre", Top.i + 1)

\* second `match order`, case _; then the next item of the loop
RecPostSkip ==
    /\ InBody("post")
    /\ call.order # PostOrder
    /\ stack' = SetTop([Top EXCEPT !.at = "pre", !.i = @ + 1])
    /\ UNCHANGED <<courses, pc, call, result, iterVars, visited_nodes, retval,
                   rec_result, tested>>

\* the outermost call returns to the caller of get_item_by_id_dfs_recursive
RecFinish ==
    /\ pc = "recursive"
    /\ stack = <<>>
    /\ rec_result' = retval
    /\ pc' = "done"
    /\ UNCHANGED <<courses, call, result, iterVars, visited_nodes, stack, retval,
                   tested>>

Next ==
    \/ Call_find_by_id
    \/ Call_get_by_id
    \/ Call_get_by_path
    \/ Call_get_item_by_id_dfs_iterative
    \/ Call_get_item_by_id
    \/ IterVisitCourse
    \/ IterVisitLab
    \/ IterVisitTask
    \/ IterVisitStep
    \/ IterExhausted
    \/ IterPostOrder
    \/ Call_get_item_by_id_dfs_recursive
    \/ RecPreVisit
    \/ RecPreSkip
    \/ RecGoCourse
    \/ RecGoLab
    \/ RecGoTask
    \/ RecGoStep
    \/ RecLoopEnd
    \/ RecPropagate
    \/ RecContinue
    \/ RecPostVisit
    \/ RecPostSkip
    \/ RecFinish

Spec == Init /\ [][Next]_vars

\* ------------------------------------------------ reference definitions
\* The traversal orders as the glossary defines them, independent of the
\* searches above.
Kids(n) ==
    IF n.kind = "Course" THEN n.labs
    ELSE IF n.kind = "Lab" THEN n.tasks
    ELSE IF n.kind = "Task" THEN n.steps
    ELSE <<>>

RECURSIVE PreOrderSeq(_)
PreOrderSeq(items) ==
    IF items = <<>> THEN <<>>
    ELSE <<Head(items)>> \o PreOrderSeq(Kids(Head(items))) \o PreOrderSeq(Tail(items))

RECURSIVE PostOrderSeq(_)
PostOrderSeq(items) ==
    IF items = <<>> THEN <<>>
    ELSE PostOrderSeq(Kids(Head(items))) \o <<Head(items)>> \o PostOrderSeq(Tail(items))

HasId(seq, id) == \E k \in 1..Len(seq) : seq[k].id = id

FirstIndex(seq, id) ==
    CHOOSE k \in 1..Len(seq) :
        /\ seq[k].id = id
        /\ \A j \in 1..(k - 1) : seq[j].id # id

\* The first element of seq with the id, paired with its 1-based position.
FirstMatch(seq, id) ==
    IF HasId(seq, id) THEN FoundItem(seq[FirstIndex(seq, id)], FirstIndex(seq, id))
    ELSE None

Refs(seq) == [k \in 1..Len(seq) |-> seq[k].ref]

NoDuplicates(seq) == \A j, k \in 1..Len(seq) : j # k => seq[j] # seq[k]

IsSearch == "order" \in DOMAIN call
IterReturned == it_result # Running
RecReturned == rec_result # Running
Present == IsSearch /\ HasId(PreOrderSeq(courses), call.item_id)

\* A forest that is one chain Course > Lab > Task > Step whose course id
\* differs from the ids below it.
IsChain ==
    /\ Len(courses) = 1
    /\ Len(PreOrderSeq(courses)) = 4
    /\ PreOrderSeq(courses)[4].kind = "Step"
    /\ \A k \in 2..4 : PreOrderSeq(courses)[k].id # courses[1].id

\* ---------------------------------------------------------------- claims
\* C1: for every forest and every id present in it, the iterative and the
\* recursive PreOrder search return the same node and the same visited_nodes.
C1_PreOrderAgree ==
    (RecReturned /\ call.order = PreOrder /\ Present)
        => /\ rec_result = it_result
           /\ rec_result.kind = "FoundItem"

C1_Witness ==
    /\ RecReturned /\ call.order = PreOrder
    /\ rec_result.kind = "FoundItem"
    /\ rec_result.item.kind = "Step"
    /\ rec_result.visited_nodes = 4
    /\ it_result = rec_result

\* C2: the recursive PostOrder search returns the first node in post-order
\* (children in sequence order, then the parent) whose id matches, with
\* visited_nodes its 1-based post-order position; on the chain C > L > T > S
\* the search for the course id returns (C, 4) in PostOrder, (C, 1) in PreOrder.
C2_RecursivePostOrder ==
    /\ (RecReturned /\ call.order = PostOrder /\ Present)
          => rec_result = FirstMatch(PostOrderSeq(courses), call.item_id)
    /\ (RecReturned /\ IsChain /\ call.item_id = courses[1].id)
          => rec_result = FoundItem(courses[1], IF call.order = PostOrder THEN 4 ELSE 1)

C2_Witness ==
    /\ RecReturned /\ call.order = PostOrder
    /\ IsChain /\ call.item_id = courses[1].id
    /\ rec_result = FoundItem(courses[1], 4)

\* C3: the iterative search called with PostOrder returns None for every
\* forest and every id, also through the entry point get_item_by_id.
C3_IterativePostOrderAbsent ==
    (IterReturned /\ call.order = PostOrder) => it_result = None

C3_Witness ==
    /\ pc = "between" /\ call.fn = "get_item_by_id"
    /\ call.order = PostOrder /\ Present
    /\ it_result = None

\* C4: in PreOrder both searches return the first node in pre-order whose id
\* equals the target, having compared exactly the nodes before it in
\* pre-order; a node whose id differs from the target is never returned.
C4_PreOrderFirstMatch ==
    /\ (IterReturned /\ call.order = PreOrder)
          => it_result = FirstMatch(PreOrderSeq(courses), call.item_id)
    /\ (RecReturned /\ call.order = PreOrder)
          => rec_result = FirstMatch(PreOrderSeq(courses), call.item_id)
    /\ (pc \in {"between", "done"} /\ IsSearch /\ call.order = PreOrder)
          => tested = SubSeq(Refs(PreOrderSeq(courses)), 1, Len(tested))
    /\ \A r \in {it_result, rec_result} :
          r.kind = "FoundItem" => r.item.id = call.item_id

\* the id occurs only as a Lab under the second course; the first course
\* has a descendant
C4_Witness ==
    /\ RecReturned /\ call.order = PreOrder
    /\ Len(courses) = 2 /\ courses[1].labs # <<>>
    /\ ~HasId(PreOrderSeq(<<courses[1]>>), call.item_id)
    /\ courses[2].id # call.item_id
    /\ rec_result = FoundItem(courses[2].labs[1], 4)
    /\ it_result = rec_result
    /\ tested = <<1, 2, 3, 4>>

\* C5: find_by_id(S, id), for an id carried by an element of S, returns the
\* element at the smallest position whose id equals id.
C5_FindFirstOccurrence ==
    (pc = "done" /\ call.fn = "find_by_id" /\ HasId(call.items, call.item_id))
        => result = call.items[FirstIndex(call.items, call.item_id)]

C5_Witness ==
    /\ pc = "done" /\ call.fn = "find_by_id"
    /\ Len(call.items) >= 3
    /\ call.items[1].id # call.item_id
    /\ call.items[2].id = call.item_id
    /\ call.items[3].id = call.item_id
    /\ result = call.items[2]

\* C6: for an id absent from the searched collection every lookup and both
\* searches return None; no call ends in an error.
C6_NotFoundIsAbsent ==
    /\ result # Error /\ it_result # Error /\ rec_result # Error
    /\ (pc = "done" /\ call.fn = "find_by_id" /\ ~HasId(call.items, call.item_id))
          => result = None
    /\ (pc = "done" /\ call.fn \in {"get_lab_by_id", "get_task_by_id", "get_step_by_id"}
           /\ ~HasId(Kids(call.parent), call.item_id))
          => result = None
    /\ (pc = "done" /\ "path" \in DOMAIN call)
          => \A n \in 1..Len(call.path) :
                (\A m \in NodesIn(courses) :
                    m.kind = <<"Course", "Lab", "Task", "Step">>[n] => m.id # call.path[n])
                    => result = None
    /\ (IterReturned /\ ~Present) => it_result = None
    /\ (RecReturned /\ ~Present) => rec_result = None

C6_Witness ==
    /\ pc = "done" /\ call.fn = "get_step_by_path"
    /\ get_course_by_id(courses, call.path[1]) # None
    /\ Len(get_course_by_id(courses, call.path[1]).labs) > 0
    /\ get_lab_by_id(get_course_by_id(courses, call.path[1]), call.path[2]) = None
    /\ result = None

\* C7: a path lookup returns what the chain of get_*_by_id lookups returns,
\* and None as soon as one lookup of the chain is None.
ChainLab(c, l) ==
    LET co == get_course_by_id(courses, c)
    IN  IF co = None THEN None ELSE get_lab_by_id(co, l)

ChainTask(c, l, t) ==
    LET la == ChainLab(c, l)
    IN  IF la = None THEN None ELSE get_task_by_id(la, t)

ChainStep(c, l, t, s) ==
    LET ta == ChainTask(c, l, t)
    IN  IF ta = None THEN None ELSE get_step_by_id(ta, s)

C7_PathAgreesWithChain ==
    (pc = "done" /\ "path" \in DOMAIN call) =>
        /\ call.fn = "get_course_by_path"
              => result = get_course_by_id(courses, call.path[1])
        /\ call.fn = "get_lab_by_path"
              => /\ result = ChainLab(call.path[1], call.path[2])
                 /\ result.kind \in {"None", "Lab"}
        /\ call.fn = "get_task_by_path"
              => /\ result = ChainTask(call.path[1], call.path[2], call.path[3])
                 /\ result.kind \in {"None", "Task"}
        /\ call.fn = "get_step_by_path"
              => /\ result = ChainStep(call.path[1], call.path[2], call.path[3], call.path[4])
                 /\ result.kind \in {"None", "Step"}

C7_Witness ==
    /\ pc = "done" /\ call.fn = "get_step_by_path"
    /\ ChainTask(call.path[1], call.path[2], call.path[3]).kind = "Task"
    /\ ChainStep(call.path[1], call.path[2], call.path[3], call.path[4]) = None
    /\ result = None

\* C8: on an empty forest both searches return None, in either order, and
\* the visit counter is still zero when the search has ended.
C8_EmptyForest ==
    (courses = <<>>) =>
        /\ IterReturned => (it_result = None /\ counter = 0)
        /\ RecReturned => (rec_result = None /\ visited_nodes = 0)

C8_Witness ==
    /\ courses = <<>>
    /\ RecReturned /\ rec_result = None /\ visited_nodes = 0
    /\ it_result = None /\ counter = 0

\* C9: the visit counter starts at 0, never decreases, and goes up by one
\* exactly when a node's id is compared; no node is compared twice; a
\* returned FoundItem holds a node of the forest with the target id, and its
\* visited_nodes is the counter, between 1 and the number of nodes.
Total == Len(PreOrderSeq(courses))

GoodFound(r, n) ==
    r.kind = "FoundItem" =>
        /\ r.item \in NodesIn(courses)
        /\ r.item.id = call.item_id
        /\ r.visited_nodes = n
        /\ 1 <= n /\ n <= Total
        /\ tested[Len(tested)] = r.item.ref

C9_CounterState ==
    /\ pc = "idle" => (counter = 0 /\ visited_nodes = 0)
    /\ pc \in {"iterative", "between"}
          => (counter = Len(tested) /\ GoodFound(it_result, counter))
    /\ (pc = "recursive" \/ RecReturned)
          => /\ visited_nodes = Len(tested)
             /\ GoodFound(retval, visited_nodes)
             /\ GoodFound(rec_result, visited_nodes)
    /\ NoDuplicates(tested)
    /\ \A k \in 1..Len(tested) : \E n \in NodesIn(courses) : n.ref = tested[k]

C9_CounterStep ==
    /\ counter' \in {counter, counter + 1}
    /\ visited_nodes' \in {visited_nodes, visited_nodes + 1}
    /\ counter' = counter + 1 => (pc = "iterative" /\ tested' # tested)
    /\ visited_nodes' = visited_nodes + 1 => (pc = "recursive" /\ tested' # tested)

C9_Counter == []C9_CounterState /\ [][C9_CounterStep]_vars

C9_Witness ==
    /\ pc = "between" /\ call.order = PreOrder
    /\ it_result.kind = "FoundItem"
    /\ it_result.visited_nodes = 4
    /\ Len(courses) = 2
    /\ it_result.item.kind = "Lab"

\* C10: in the recursive search, once a match has been returned by a call
\* it is handed upward unchanged and no further node is counted or compared;
\* the search returns it with visited_nodes the counter value at the match.
C10_Step ==
    (pc = "recursive" /\ retval.kind = "FoundItem")
        => /\ retval' = retval
           /\ visited_nodes' = visited_nodes
           /\ tested' = tested
           /\ Len(stack') < Len(stack) \/ rec_result' = retval

C10_ShortCircuit == [][C10_Step]_vars

\* PostOrder match in a first Task that has a later sibling and two ancestors
C10_Witness ==
    /\ RecReturned /\ call.order = PostOrder
    /\ rec_result.kind = "FoundItem"
    /\ rec_result.item.kind = "Task"
    /\ rec_result.visited_nodes = 1
    /\ Total = 4
    /\ Len(courses[1].labs[1].tasks) = 2
    /\ tested = <<rec_result.item.ref>>
====
